---- MODULE Spec2Model ----
(***************************************************************************)
(* Persian speech-to-text service (src/main.py): the audio ingestion and   *)
(* normalization pipeline behind the three endpoints /transcribe,          *)
(* /transcribe-base64 and /transcribe-url.                                 *)
(*                                                                         *)
(* Text is a sequence of one-character strings, bytes are integers 0..255. *)
(* A Python Optional is a sequence of length 0 (None) or 1 (the value).    *)
(* Of a byte buffer the model keeps the leading bytes (the part the code   *)
(* inspects); what the codec and the WAV reader make of the rest is the    *)
(* environment's answer at the step that calls them.                       *)
(***************************************************************************)
EXTENDS Integers, Sequences, FiniteSets, TLC

VARIABLES
    pc,             \* position of the one request (or of the process before it)
    model_loaded,   \* main.py:61 global
    req,            \* the request as received
    file_ext,       \* handler local: the suffix given to the original artifact
    audio_data,     \* handler local: the bytes to be written (leading bytes)
    fs,             \* the temporary directory: artifact -> Optional file
    pre,            \* locals of preprocess_audio
    signal,         \* Optional normalized signal (sample count, shape, duration)
    exc,            \* Optional exception in flight
    pending,        \* what the handler's try block ended with, before its finally
    response,       \* Optional HTTP response
    hist,           \* observation record: calls made, failures injected
    running,        \* the coroutine the event loop is executing, or "none"
    task,           \* concurrent callers of load_model: the position of each
    loader,         \* main.py:58-60 globals, as counts of completed loads
    norm            \* a signal passing through peak normalization

vars == <<pc, model_loaded, req, file_ext, audio_data, fs, pre, signal, exc,
          pending, response, hist, running, task, loader, norm>>

\* the state of one request's pipeline
request_vars == <<pc, req, file_ext, audio_data, fs, pre, signal, exc, pending,
                  response, hist>>

\* the state of the event loop and of the coroutines it runs
loop_vars == <<running, task, loader>>

norm_vars == <<norm>>

----------------------------------------------------------------------------
(* Python values *)

None == <<>>
Some(v) == <<v>>
IsNone(o) == o = <<>>
Val(o) == o[1]

\* truthiness of an Optional[str]: None and "" are both falsy
Truthy(o) == o # <<>> /\ o[1] # <<>>

\* `a or b` on Optional[str]
Or(a, b) == IF Truthy(a) THEN a ELSE b

----------------------------------------------------------------------------
(* Text *)

UpperLetters == <<"A","B","C","D","E","F","G","H","I","J","K","L","M",
                  "N","O","P","Q","R","S","T","U","V","W","X","Y","Z">>
LowerLetters == <<"a","b","c","d","e","f","g","h","i","j","k","l","m",
                  "n","o","p","q","r","s","t","u","v","w","x","y","z">>
Digits == <<"0","1","2","3","4","5","6","7","8","9">>

IndexOf(c, seq) ==
    IF \E i \in 1..Len(seq) : seq[i] = c
    THEN CHOOSE i \in 1..Len(seq) : seq[i] = c
    ELSE 0

\* str.lower()
LowerChar(c) ==
    LET i == IndexOf(c, UpperLetters) IN IF i = 0 THEN c ELSE LowerLetters[i]

lower(s) == [i \in 1..Len(s) |-> LowerChar(s[i])]

\* str.rfind(c), 1-based, 0 when absent
rfind(s, c) ==
    IF \E i \in 1..Len(s) : s[i] = c
    THEN CHOOSE i \in 1..Len(s) : s[i] = c /\ \A j \in (i+1)..Len(s) : s[j] # c
    ELSE 0

\* str.startswith('.')
startswith_dot(s) == Len(s) > 0 /\ s[1] = "."

\* pathlib: the final component of a path
PathName(p) == LET i == rfind(p, "/") IN SubSeq(p, i + 1, Len(p))

\* pathlib: Path(p).suffix -- the last dot of the name and what follows it,
\* unless that dot is the first or the last character of the name
PathSuffix(p) ==
    LET name == PathName(p)
        i    == rfind(name, ".")
    IN  IF 1 < i /\ i < Len(name) THEN SubSeq(name, i, Len(name)) ELSE <<>>

\* tempfile.NamedTemporaryFile(suffix=s).name: "tmp" + random [a-z0-9_] + s
TempName(s) == <<"t","m","p","k","3","_","q","z","a","b","w">> \o s

----------------------------------------------------------------------------
(* base64.b64decode(s) with validate=False (binascii.a2b_base64) *)

B64Alphabet == UpperLetters \o LowerLetters \o Digits \o <<"+", "/">>

\* table_a2b_base64: 0..63 for an alphabet character, 64 otherwise
B64Value(c) ==
    LET i == IndexOf(c, B64Alphabet) IN IF i = 0 THEN 64 ELSE i - 1

\* Decoder state: quad_pos, leftchar, pads, out, done
RECURSIVE a2b_loop(_, _, _)
a2b_loop(s, i, st) ==
    IF i > Len(s) \/ st.done THEN st
    ELSE
      LET c == s[i] IN
      IF c = "=" THEN
          IF st.quad_pos >= 2 /\ st.quad_pos + st.pads + 1 >= 4
          THEN [st EXCEPT !.pads = @ + 1, !.done = TRUE]
          ELSE a2b_loop(s, i + 1,
                        IF st.quad_pos >= 2 THEN [st EXCEPT !.pads = @ + 1] ELSE st)
      ELSE
        LET v == B64Value(c) IN
        IF v >= 64 THEN a2b_loop(s, i + 1, st)      \* non-alphabet: skipped
        ELSE a2b_loop(s, i + 1,
          CASE st.quad_pos = 0 ->
                 [st EXCEPT !.quad_pos = 1, !.leftchar = v, !.pads = 0]
            [] st.quad_pos = 1 ->
                 [st EXCEPT !.quad_pos = 2, !.pads = 0,
                            !.out = Append(@, st.leftchar * 4 + (v \div 16)),
                            !.leftchar = v % 16]
            [] st.quad_pos = 2 ->
                 [st EXCEPT !.quad_pos = 3, !.pads = 0,
                            !.out = Append(@, st.leftchar * 16 + (v \div 4)),
                            !.leftchar = v % 4]
            [] st.quad_pos = 3 ->
                 [st EXCEPT !.quad_pos = 0, !.pads = 0,
                            !.out = Append(@, st.leftchar * 64 + v),
                            !.leftchar = 0])

\* [ok |-> FALSE] when binascii.Error is raised, else the bytes
b64decode(s) ==
    LET st == a2b_loop(s, 1, [quad_pos |-> 0, leftchar |-> 0, pads |-> 0,
                              out |-> <<>>, done |-> FALSE])
    IN  IF st.done \/ st.quad_pos = 0
        THEN [ok |-> TRUE, bytes |-> st.out]
        ELSE [ok |-> FALSE, bytes |-> <<>>]

----------------------------------------------------------------------------
(* Byte signatures *)

RIFF == <<82, 73, 70, 70>>
RIFX == <<82, 73, 70, 88>>
ID3v == <<73, 68, 51>>
MpegSync == <<255, 251>>
fLaC == <<102, 76, 97, 67>>
OggS == <<79, 103, 103, 83>>

Take(b, n) == SubSeq(b, 1, IF Len(b) < n THEN Len(b) ELSE n)


----------------------------------------------------------------------------
(* Configuration, main.py:63-68 *)

TARGET_SAMPLE_RATE == 16000
MAX_AUDIO_LENGTH == 30
\* MIN_AUDIO_LENGTH = 0.5 seconds, kept exact as tenths of a second
MIN_AUDIO_LENGTH_TENTHS == 5

x_wav  == <<".", "w", "a", "v">>
x_mp3  == <<".", "m", "p", "3">>
x_m4a  == <<".", "m", "4", "a">>
x_mp4  == <<".", "m", "p", "4">>
x_flac == <<".", "f", "l", "a", "c">>
x_ogg  == <<".", "o", "g", "g">>
x_aac  == <<".", "a", "a", "c">>
x_wma  == <<".", "w", "m", "a">>
x_3gp  == <<".", "3", "g", "p">>

\* format_map of convert_audio_to_wav: the extensions the codec is told a format for
format_map_keys == {x_wav, x_mp3, x_m4a, x_mp4, x_flac, x_ogg, x_aac, x_wma, x_3gp}

\* content_type_map.get(ct): Optional extension
content_type_map_get(ct) ==
    CASE ct = "audio/wav"   -> Some(x_wav)
      [] ct = "audio/mpeg"  -> Some(x_mp3)
      [] ct = "audio/mp4"   -> Some(x_m4a)
      [] ct = "audio/x-m4a" -> Some(x_m4a)
      [] ct = "audio/flac"  -> Some(x_flac)
      [] ct = "audio/ogg"   -> Some(x_ogg)
      [] ct = "audio/aac"   -> Some(x_aac)
      [] OTHER              -> None

\* truthiness of an Optional content type (an atomic string)
TruthyCt(o) == o # <<>> /\ o[1] # ""

----------------------------------------------------------------------------
\* upload_file_extension taking the filename suffix as written
upload_file_extension_as_written(filename, content_type) ==
    LET e1 == IF Truthy(filename) THEN Some(PathSuffix(Val(filename)))
              ELSE None
        e2 == IF ~Truthy(e1) /\ TruthyCt(content_type)
              THEN content_type_map_get(Val(content_type))
              ELSE e1
    IN  IF ~Truthy(e2) THEN x_m4a ELSE Val(e2)

(* Format hint of the upload endpoint, main.py:595-621 *)

upload_file_extension(filename, content_type) ==
    LET e1 == IF Truthy(filename) THEN Some(lower(PathSuffix(Val(filename))))
              ELSE None
        e2 == IF ~Truthy(e1) /\ TruthyCt(content_type)
              THEN content_type_map_get(Val(content_type))
              ELSE e1
    IN  IF ~Truthy(e2) THEN x_m4a ELSE Val(e2)

(* Format hint of the base64 endpoint, main.py:717-757 *)

\* header_file_ext without its RIFF/RIFX case
header_file_ext_no_riff(data) ==
    IF Len(data) >= 4 THEN
        LET header == Take(data, 4) IN
        IF Take(header, 3) = ID3v \/ (Len(data) >= 2 /\ Take(data, 2) = MpegSync)
             THEN x_mp3
        ELSE IF Take(header, 4) = fLaC THEN x_flac
        ELSE IF Take(header, 4) = OggS THEN x_ogg
        ELSE x_m4a
    ELSE x_m4a

\* main.py:741-757, the fallback on the decoded bytes
header_file_ext(data) ==
    IF Len(data) >= 4 THEN
        LET header == Take(data, 4) IN
        IF header = RIFF \/ header = RIFX THEN x_wav
        ELSE IF Take(header, 3) = ID3v \/ (Len(data) >= 2 /\ Take(data, 2) = MpegSync)
             THEN x_mp3
        ELSE IF Take(header, 4) = fLaC THEN x_flac
        ELSE IF Take(header, 4) = OggS THEN x_ogg
        ELSE IF Take(header, 4) = <<0, 0, 0>> THEN x_m4a
        ELSE x_m4a
    ELSE x_m4a

\* main.py:719-721
explicit_file_ext(file_extension) ==
    IF Truthy(file_extension) /\ ~startswith_dot(Val(file_extension))
    THEN Some(<<".">> \o Val(file_extension))
    ELSE file_extension

\* main.py:723-725
filename_file_ext(e, filename) ==
    IF ~Truthy(e) /\ Truthy(filename)
    THEN Or(Some(lower(PathSuffix(Val(filename)))), Some(x_m4a))
    ELSE e

\* main.py:727-738
content_type_file_ext(e, content_type) ==
    IF ~Truthy(e) /\ TruthyCt(content_type)
    THEN LET m == content_type_map_get(Val(content_type))
         IN  IF IsNone(m) THEN Some(x_m4a) ELSE m
    ELSE e

\* base64_file_ext with the content type consulted before the filename
base64_file_ext_ct_first(file_extension, filename, content_type, data) ==
    LET e1 == explicit_file_ext(file_extension)
        e2 == content_type_file_ext(e1, content_type)
        e3 == filename_file_ext(e2, filename)
    IN  IF ~Truthy(e3) THEN header_file_ext(data) ELSE Val(e3)

base64_file_ext(file_extension, filename, content_type, data) ==
    LET e1 == explicit_file_ext(file_extension)
        e2 == filename_file_ext(e1, filename)
        e3 == content_type_file_ext(e2, content_type)
    IN  IF ~Truthy(e3) THEN header_file_ext(data) ELSE Val(e3)

\* get_audio_data consulting the legacy field first
get_audio_data_legacy_first(r) == Or(Or(r.audio_base64, r.audio), Some(<<>>))

\* get_audio_data reading the `audio` field alone
get_audio_data_audio_only(r) == Or(r.audio, Some(<<>>))

\* Base64TranscriptionRequest.get_audio_data, main.py:97-99
get_audio_data(r) == Or(Or(r.audio, r.audio_base64), Some(<<>>))

\* validate_audio_field testing for None instead of for falsiness
validate_audio_field_not_none(r) == ~(IsNone(r.audio) /\ IsNone(r.audio_base64))

\* Base64TranscriptionRequest.validate_audio_field, main.py:90-95: TRUE = accepted
validate_audio_field(r) == ~(~Truthy(r.audio) /\ ~Truthy(r.audio_base64))


----------------------------------------------------------------------------
(* Inputs *)

\* base64 texts of leading bytes
b64_RIFF  == <<"U","k","l","G","R","g","=","=">>    \* "UklGRg==" : RIFF
b64_RIFX  == <<"U","k","l","G","W","A","=","=">>    \* "UklGWA==" : RIFX
b64_ID3   == <<"S","U","Q","z","B","A","=","=">>    \* "SUQzBA==" : ID3 04
b64_MPEG  == <<"/","/","u","Q","A","A","=","=">>    \* "//uQAA==" : ff fb 90 00
b64_fLaC  == <<"Z","k","x","h","Q","w","=","=">>    \* "ZkxhQw==" : fLaC
b64_OggS  == <<"T","2","d","n","U","w","=","=">>    \* "T2dnUw==" : OggS
b64_ftyp  == <<"A","A","A","A","I","A","=","=">>    \* "AAAAIA==" : 00 00 00 20
b64_short == <<"Q","U","I","=">>    \* "QUI="     : two bytes
b64_bad   == <<"i","n","v","a","l","i","d","_","b","a","s","e","6","4">>    \* test_api.py:117

B64Texts == {b64_RIFF, b64_RIFX, b64_ID3, b64_MPEG, b64_fLaC, b64_OggS,
             b64_ftyp, b64_short, b64_bad}

\* leading bytes of an upload body or of a remote resource
Contents == {RIFF, RIFX, <<73, 68, 51, 4>>, <<255, 251, 144, 0>>, fLaC, OggS,
             <<0, 0, 0, 32>>, <<65, 66>>, <<>>}

n_rec   == <<"r","e","c">>
n_a_wav == <<"a",".","w","a","v">>
n_b_OGG == <<"b",".","O","G","G">>
n_c_txt == <<"c",".","t","x","t">>

Filenames == {None, Some(n_rec), Some(n_a_wav), Some(n_b_OGG), Some(n_c_txt)}
ContentTypes == {None, Some("audio/wav"), Some("audio/mpeg"), Some("text/plain")}
FileExtensions == {None, Some(<<"W","A","V">>), Some(x_mp3), Some(<<"x","y","z">>),
                   Some(<<".">>)}

NoReq == [variant |-> "none", audio |-> None, audio_base64 |-> None,
          filename |-> None, content_type |-> None, file_extension |-> None,
          content |-> <<>>, status |-> 0]

UploadRequests ==
    {[NoReq EXCEPT !.variant = "upload", !.filename = f, !.content_type = c,
                   !.content = b] :
        f \in Filenames, c \in ContentTypes, b \in Contents}

Base64Requests ==
    {[NoReq EXCEPT !.variant = "base64", !.audio = a, !.audio_base64 = o,
                   !.filename = f, !.content_type = c, !.file_extension = x] :
        a \in {None, Some(<<>>)} \cup {Some(t) : t \in B64Texts},
        o \in {None, Some(b64_RIFF), Some(b64_ID3)},
        f \in Filenames, c \in ContentTypes, x \in FileExtensions}

UrlRequests ==
    {[NoReq EXCEPT !.variant = "url", !.content = b, !.status = st] :
        b \in Contents, st \in {200, 404}}

Requests == UploadRequests \cup Base64Requests \cup UrlRequests

\* how far around each duration limit the frame counts are enumerated
Slack == 2

\* frame counts at rate sr that lie within Slack frames of `seconds_tenths`
Around(sr, seconds_tenths) ==
    LET n == (sr * seconds_tenths) \div 10 IN (n - Slack)..(n + Slack)

\* rate and frame count scipy.io.wavfile.read can report of a RIFF/RIFX file;
\* 0.49 s and 30.01 s at the target rate are 7840 and 480160 frames
RateAndFrames ==
    {[sr |-> TARGET_SAMPLE_RATE, frames |-> n] :
        n \in {0, 7840, 480160} \cup Around(TARGET_SAMPLE_RATE, 5)
                                \cup Around(TARGET_SAMPLE_RATE, 300)}
    \cup {[sr |-> 8000, frames |-> n] : n \in Around(8000, 5) \cup Around(8000, 300)}
    \cup {[sr |-> 44100, frames |-> n] : n \in Around(44100, 5) \cup Around(44100, 300)}
    \cup {[sr |-> 48000, frames |-> n] : n \in Around(48000, 5) \cup Around(48000, 300)}

\* what wavfile.read returns: the rate and an array of one or two channels
WavReads ==
    {[sr |-> w.sr, frames |-> w.frames, channels |-> c] :
        w \in RateAndFrames, c \in {1, 2}}

----------------------------------------------------------------------------
(* State *)

NoFiles == [orig |-> None, conv |-> None]

NoPre == [converted_file_path |-> FALSE, is_wav |-> FALSE, should_convert |-> FALSE,
          audio_file_path |-> "orig", sr |-> 0, frames |-> 0, channels |-> 0,
          samples |-> 0, normalized |-> FALSE]

NoHist == [convert |-> 0, wavread |-> 0, recognise |-> 0, unlink_failed |-> FALSE,
           codec |-> "none"]

\* how many requests are in flight together
NRequests == 2

\* the coroutines that reach load_model: the startup hook (0) and the requests
StartupHook == 0
Callers == {StartupHook} \cup (1..NRequests)

NoTask == [at |-> "idle", kind |-> "none"]

\* main.py:58-61 before any load: how often processor and model were assigned,
\* how often the body of load_model was entered
NoLoader == [processor |-> 0, model |-> 0, started |-> 0]

NoNorm == [at |-> "idle", input |-> <<>>, audio |-> <<>>]

\* an exception: its Python class, the failure it reports, the status it carries
Raise(cls, err, code) == Some([cls |-> cls, err |-> err, code |-> code])

Init ==
    /\ pc = "boot"
    /\ model_loaded = FALSE
    /\ req = NoReq
    /\ file_ext = <<>>
    /\ audio_data = <<>>
    /\ fs = NoFiles
    /\ pre = NoPre
    /\ signal = None
    /\ exc = None
    /\ pending = None
    /\ response = None
    /\ hist = NoHist
    /\ running = None
    /\ task = [c \in Callers |-> NoTask]
    /\ loader = NoLoader
    /\ norm = NoNorm

----------------------------------------------------------------------------
(* Startup and the model dependency *)

\* how a run of load_model's body can end: both from_pretrained calls return,
\* or the first raises, or the second (or eval, or cuda) raises
LoadOutcomes == {"ok", "processor_failed", "model_failed"}

\* main.py:121-127: the globals a run of load_model's body assigns
load_effect(l, out) ==
    [l EXCEPT !.started = @ + 1,
              !.processor = IF out = "processor_failed" THEN @ ELSE @ + 1,
              !.model = IF out = "ok" THEN @ + 1 ELSE @]

\* model_loaded set as soon as the processor is there
model_loaded_after_processor(out) == out # "processor_failed"

\* main.py:133: `model_loaded = True` is the last statement of the try block
model_loaded_after(out) == out = "ok"

\* startup_event, main.py:532-557, with load_model, main.py:110-142: a failed
\* load raises out of the startup hook and the server exits
startup_event ==
    /\ pc = "boot"
    /\ \E out \in LoadOutcomes :
         /\ loader' = load_effect(loader, out)
         /\ model_loaded' = model_loaded_after(out)
         /\ pc' = IF out = "ok" THEN "idle" ELSE "exited"
    /\ UNCHANGED <<req, file_ext, audio_data, fs, pre, signal, exc, pending,
                   response, hist>>
    /\ UNCHANGED <<running, task, norm_vars>>

\* the application served without its lifespan events (a test client, lifespan off)
lifespan_off ==
    /\ pc = "boot"
    /\ pc' = "idle"
    /\ UNCHANGED <<model_loaded, req, file_ext, audio_data, fs, pre, signal, exc,
                   pending, response, hist>>
    /\ UNCHANGED <<loop_vars, norm_vars>>

Receive ==
    /\ pc = "idle"
    /\ \E r \in Requests : req' = r
    /\ pc' = "get_model"
    /\ UNCHANGED <<model_loaded, file_ext, audio_data, fs, pre, signal, exc,
                   pending, response, hist>>
    /\ UNCHANGED <<loop_vars, norm_vars>>

\* HandlerEntry with the URL handler waiting on a call that does not return
HandlerEntry_url_waits(variant) ==
    CASE variant = "upload" -> "upload_hint"
      [] variant = "base64" -> "validate"
      [] variant = "url"    -> "url_wait"

\* where a handler starts once its dependencies are solved
HandlerEntry(variant) ==
    CASE variant = "upload" -> "upload_hint"
      [] variant = "base64" -> "validate"
      [] variant = "url"    -> "url_fetch"

\* get_model, main.py:525-528
get_model ==
    /\ pc = "get_model"
    /\ IF ~model_loaded
       THEN \E out \in LoadOutcomes :
              /\ loader' = load_effect(loader, out)
              /\ model_loaded' = model_loaded_after(out)
              /\ exc' = IF out = "ok" THEN None ELSE Raise("OSError", "ModelLoad", 0)
              /\ pc' = IF out = "ok" THEN HandlerEntry(req.variant) ELSE "unhandled"
       ELSE /\ pc' = HandlerEntry(req.variant)
            /\ UNCHANGED <<model_loaded, exc, loader>>
    /\ UNCHANGED <<req, file_ext, audio_data, fs, pre, signal, pending, response, hist>>
    /\ UNCHANGED <<running, task, norm_vars>>

\* general_exception_handler, main.py:860-869
general_exception_handler ==
    /\ pc = "unhandled"
    /\ response' = Some([status |-> 500, err |-> Val(exc).err])
    /\ exc' = None
    /\ pc' = "done"
    /\ UNCHANGED <<model_loaded, req, file_ext, audio_data, fs, pre, signal,
                   pending, hist>>
    /\ UNCHANGED <<loop_vars, norm_vars>>

\* request body validation by Base64TranscriptionRequest, main.py:90-95
validate_request ==
    /\ pc = "validate"
    /\ IF validate_audio_field(req)
       THEN pc' = "base64_decode" /\ UNCHANGED response
       ELSE /\ response' = Some([status |-> 422, err |-> "MissingAudio"])
            /\ pc' = "done"
    /\ UNCHANGED <<model_loaded, req, file_ext, audio_data, fs, pre, signal, exc,
                   pending, hist>>
    /\ UNCHANGED <<loop_vars, norm_vars>>

----------------------------------------------------------------------------
(* Ingestion *)

\* transcribe_audio_file, main.py:595-621
upload_hint ==
    /\ pc = "upload_hint"
    /\ file_ext' = upload_file_extension(req.filename, req.content_type)
    /\ pc' = "create"
    /\ UNCHANGED <<model_loaded, req, audio_data, fs, pre, signal, exc, pending,
                   response, hist>>
    /\ UNCHANGED <<loop_vars, norm_vars>>

\* transcribe_base64_audio, main.py:701-762
base64_decode ==
    /\ pc = "base64_decode"
    /\ LET s == get_audio_data(req)
           d == b64decode(Val(s))
       IN  IF ~Truthy(s)
           THEN /\ exc' = Raise("HTTPException", "MissingAudio", 400)
                /\ pc' = "respond"
                /\ UNCHANGED <<audio_data, file_ext>>
           ELSE IF ~d.ok
           THEN /\ exc' = Raise("HTTPException", "InvalidEncoding", 400)
                /\ pc' = "respond"
                /\ UNCHANGED <<audio_data, file_ext>>
           ELSE /\ audio_data' = d.bytes
                /\ file_ext' = base64_file_ext(req.file_extension, req.filename,
                                               req.content_type, d.bytes)
                /\ pc' = "create"
                /\ UNCHANGED exc
    /\ UNCHANGED <<model_loaded, req, fs, pre, signal, pending, response, hist>>
    /\ UNCHANGED <<loop_vars, norm_vars>>

\* transcribe_audio_url, main.py:808-816: the download
url_fetch ==
    /\ pc = "url_fetch"
    /\ \E net_ok \in BOOLEAN :
         IF ~net_ok
         THEN /\ exc' = Raise("ClientError", "Network", 0)
              /\ pc' = "respond"
              /\ UNCHANGED <<audio_data, file_ext>>
         ELSE IF req.status # 200
         THEN /\ exc' = Raise("HTTPException", "Fetch", 400)
              /\ pc' = "respond"
              /\ UNCHANGED <<audio_data, file_ext>>
         ELSE /\ audio_data' = req.content
              /\ file_ext' = x_wav
              /\ pc' = "create"
              /\ UNCHANGED exc
    /\ UNCHANGED <<model_loaded, req, fs, pre, signal, pending, response, hist>>
    /\ UNCHANGED <<loop_vars, norm_vars>>

\* tempfile.NamedTemporaryFile(delete=False, suffix=file_ext),
\* main.py:633-635, 765, 819: the original artifact, empty
create_original ==
    /\ pc = "create"
    /\ fs' = [fs EXCEPT !.orig = Some([name |-> TempName(file_ext), head |-> <<>>])]
    /\ pc' = IF req.variant = "upload" THEN "upload_read" ELSE "write"
    /\ UNCHANGED <<model_loaded, req, file_ext, audio_data, pre, signal, exc,
                   pending, response, hist>>
    /\ UNCHANGED <<loop_vars, norm_vars>>

\* content = await audio.read(), main.py:636
upload_read ==
    /\ pc = "upload_read"
    /\ \E ok \in BOOLEAN :
         IF ok
         THEN audio_data' = req.content /\ pc' = "write" /\ UNCHANGED exc
         ELSE /\ exc' = Raise("OSError", "Read", 0)
              /\ pc' = "respond"
              /\ UNCHANGED audio_data
    /\ UNCHANGED <<model_loaded, req, file_ext, fs, pre, signal, pending, response, hist>>
    /\ UNCHANGED <<loop_vars, norm_vars>>

\* temp_file.write(...), main.py:637, 766, 820; the with-block closes the file
\* and, delete=False, leaves it in place
write_original ==
    /\ pc = "write"
    /\ \E ok \in BOOLEAN :
         IF ok
         THEN /\ fs' = [fs EXCEPT !.orig = Some([Val(@) EXCEPT !.head = audio_data])]
              /\ pc' = "preprocess"
              /\ UNCHANGED exc
         ELSE /\ exc' = Raise("OSError", "Write", 0)
              /\ pc' = "respond"
              /\ UNCHANGED fs
    /\ UNCHANGED <<model_loaded, req, file_ext, audio_data, pre, signal, pending,
                   response, hist>>
    /\ UNCHANGED <<loop_vars, norm_vars>>


----------------------------------------------------------------------------
(* preprocess_audio, main.py:292-485 *)

IsWavHeader(head) == Take(head, 4) = RIFF \/ Take(head, 4) = RIFX

\* main.py:336-354: the routing decision from the artifact's suffix and header
should_convert(ext, is_wav) ==
    IF ext # <<>> THEN ext # x_wav ELSE ~is_wav

\* main.py:302-357
preprocess_route ==
    /\ pc = "preprocess"
    /\ LET f     == Val(fs.orig)
           ext   == lower(PathSuffix(f.name))
           isw   == IsWavHeader(f.head)
           conv  == should_convert(ext, isw)
       IN  /\ pre' = [NoPre EXCEPT !.is_wav = isw, !.should_convert = conv]
           /\ pc' = IF conv THEN "mktemp" ELSE "read_wav"
    /\ UNCHANGED <<model_loaded, req, file_ext, audio_data, fs, signal, exc,
                   pending, response, hist>>
    /\ UNCHANGED <<loop_vars, norm_vars>>

\* main.py:360-363: the converted artifact, empty
preprocess_mktemp ==
    /\ pc = "mktemp"
    /\ fs' = [fs EXCEPT !.conv = Some([name |-> TempName(x_wav), head |-> <<>>])]
    /\ pre' = [pre EXCEPT !.converted_file_path = TRUE]
    /\ pc' = "convert"
    /\ UNCHANGED <<model_loaded, req, file_ext, audio_data, signal, exc, pending,
                   response, hist>>
    /\ UNCHANGED <<loop_vars, norm_vars>>

\* what the codec engine can do with an input: write a RIFF or a RIFX file,
\* fail to read the input, be absent, fail to write, return leaving no file,
\* return leaving a file that does not start with a WAV signature
ConvertOutcomes ==
    {"ok", "ok_rifx", "load_failed", "ffmpeg_missing", "export_failed", "no_output",
     "bad_header"}

\* the failure a conversion outcome is reported as
ConvertError(out) ==
    IF out \in {"load_failed", "ffmpeg_missing"} THEN "Decode" ELSE "Encode"

\* main.py:194-255: the outcomes in which AudioSegment.from_file or export raised
codec_raised(out) == out \in {"load_failed", "ffmpeg_missing", "export_failed"}

\* conversion_verified accepting any output file that exists
conversion_verified_exists_only(f) == ~IsNone(f)

\* main.py:258-278, repeated at main.py:372-390: the output file exists and its
\* first four bytes are RIFF or RIFX
conversion_verified(f) == ~IsNone(f) /\ IsWavHeader(Val(f).head)

\* convert_audio_to_wav, main.py:145-289, called at main.py:368 and checked
\* again at main.py:372-394
convert_audio_to_wav ==
    /\ pc = "convert"
    /\ \E out \in ConvertOutcomes :
         /\ hist' = [hist EXCEPT !.convert = @ + 1, !.codec = out]
         /\ fs' = CASE out = "ok" ->
                       [fs EXCEPT !.conv = Some([Val(@) EXCEPT !.head = RIFF])]
                    [] out = "ok_rifx" ->
                       [fs EXCEPT !.conv = Some([Val(@) EXCEPT !.head = RIFX])]
                    [] out = "bad_header" ->
                       [fs EXCEPT !.conv = Some([Val(@) EXCEPT !.head = <<0, 0, 0, 0>>])]
                    [] out = "no_output" -> [fs EXCEPT !.conv = None]
                    [] OTHER -> fs
         /\ IF ~codec_raised(out) /\ conversion_verified(fs'.conv)
            THEN /\ pre' = [pre EXCEPT !.audio_file_path = "conv"]
                 /\ pc' = "read_wav"
                 /\ UNCHANGED exc
            ELSE /\ exc' = Raise("ValueError", ConvertError(out), 0)
                 /\ pc' = "convert_failed"
                 /\ UNCHANGED pre
    /\ UNCHANGED <<model_loaded, req, file_ext, audio_data, signal, pending, response>>
    /\ UNCHANGED <<loop_vars, norm_vars>>

\* main.py:395-409: remove the converted artifact, errors ignored, and raise
preprocess_convert_failed ==
    /\ pc = "convert_failed"
    /\ IF ~IsNone(fs.conv)
       THEN \E unlinked \in BOOLEAN :
              /\ fs' = IF unlinked THEN [fs EXCEPT !.conv = None] ELSE fs
              /\ hist' = IF unlinked THEN hist ELSE [hist EXCEPT !.unlink_failed = TRUE]
       ELSE UNCHANGED <<fs, hist>>
    /\ exc' = Raise("ValueError", Val(exc).err, 0)
    /\ pc' = "preprocess_finally"
    /\ UNCHANGED <<model_loaded, req, file_ext, audio_data, pre, signal, pending,
                   response>>
    /\ UNCHANGED <<loop_vars, norm_vars>>

\* main.py:413-434: scipy.io.wavfile.read on the routed artifact
preprocess_read_wav ==
    /\ pc = "read_wav"
    /\ hist' = [hist EXCEPT !.wavread = @ + 1]
    /\ LET f == Val(fs[pre.audio_file_path])
       IN  \/ /\ IsWavHeader(f.head)
              /\ \E w \in WavReads :
                   pre' = [pre EXCEPT !.sr = w.sr, !.frames = w.frames,
                                    !.channels = w.channels]
              /\ pc' = "normalize"
              /\ UNCHANGED exc
           \/ /\ exc' = Raise("ValueError", "MalformedPcm", 0)
              /\ pc' = "preprocess_finally"
              /\ UNCHANGED pre
    /\ UNCHANGED <<model_loaded, req, file_ext, audio_data, fs, signal, pending,
                   response>>
    /\ UNCHANGED <<loop_vars, norm_vars>>

\* the shape of the array wavfile.read returns: (frames,) for one channel,
\* (frames, channels) for more
shape(frames, channels) ==
    IF channels = 1 THEN <<frames>> ELSE <<frames, channels>>

\* main.py:444-446: np.mean(audio, axis=1) when the array has a second axis
to_mono(s) == IF Len(s) > 1 THEN <<s[1]>> ELSE s

\* num_samples rounding to the nearest integer
num_samples_rounded(frames, sr, target_sr) ==
    IF sr # target_sr
    THEN (frames \div sr) * target_sr
         + ((frames % sr) * target_sr + sr \div 2) \div sr
    ELSE frames

\* main.py:448-451: the sample count after resampling
\* int(len(audio) * target_sr / sr), computed as
\* (len div sr) * target_sr + ((len mod sr) * target_sr) div sr to stay in range
num_samples(frames, sr, target_sr) ==
    IF sr # target_sr
    THEN (frames \div sr) * target_sr + ((frames % sr) * target_sr) \div sr
    ELSE frames

\* too_long with no upper limit
too_long_never(n, target_sr) == FALSE

\* too_short with the limit itself rejected
too_short_inclusive(n, target_sr) == 10 * n <= MIN_AUDIO_LENGTH_TENTHS * target_sr

\* main.py:457-469: duration = len(audio) / target_sr against the limits
too_short(n, target_sr) == 10 * n < MIN_AUDIO_LENGTH_TENTHS * target_sr
too_long(n, target_sr) == n > MAX_AUDIO_LENGTH * target_sr

\* main.py:436-471: conversion to float, downmix, resampling, peak
\* normalization, then the duration limits. np.max at main.py:454 raises
\* ValueError on an empty array, so a signal of no samples never reaches the limits.
\* Of the result the sample count, the array shape and the duration (a
\* fraction: samples over rate) are kept; the amplitudes are followed
\* separately, under peak_normalize.
preprocess_normalize ==
    /\ pc = "normalize"
    /\ LET mono == to_mono(shape(pre.frames, pre.channels))
           n    == num_samples(mono[1], pre.sr, TARGET_SAMPLE_RATE)
           out  == [mono EXCEPT ![1] = n]
       IN  IF n = 0
           THEN /\ exc' = Raise("ValueError", "EmptySignal", 0)
                /\ pre' = [pre EXCEPT !.samples = n]
                /\ UNCHANGED signal
           ELSE /\ pre' = [pre EXCEPT !.samples = n, !.normalized = TRUE]
                /\ IF too_short(n, TARGET_SAMPLE_RATE)
                   THEN exc' = Raise("ValueError", "TooShort", 0) /\ UNCHANGED signal
                   ELSE IF too_long(n, TARGET_SAMPLE_RATE)
                   THEN exc' = Raise("ValueError", "TooLong", 0) /\ UNCHANGED signal
                   ELSE /\ signal' = Some([n |-> out[1], shape |-> out,
                                            duration |-> <<out[1], TARGET_SAMPLE_RATE>>])
                        /\ UNCHANGED exc
    /\ pc' = "preprocess_finally"
    /\ UNCHANGED <<model_loaded, req, file_ext, audio_data, fs, pending, response, hist>>
    /\ UNCHANGED <<loop_vars, norm_vars>>

\* cleanup_due with the converted artifact left to the caller
cleanup_due_never(converted, f) == FALSE

\* main.py:479-480: a converted artifact was created and its file exists
cleanup_due(converted, f) == converted /\ ~IsNone(f)

\* main.py:473-485: the finally clause; the function then returns or raises
preprocess_finally ==
    /\ pc = "preprocess_finally"
    /\ IF cleanup_due(pre.converted_file_path, fs.conv)
       THEN \E unlinked \in BOOLEAN :
              /\ fs' = IF unlinked THEN [fs EXCEPT !.conv = None] ELSE fs
              /\ hist' = IF unlinked THEN hist ELSE [hist EXCEPT !.unlink_failed = TRUE]
       ELSE UNCHANGED <<fs, hist>>
    /\ pre' = NoPre
    /\ IF IsNone(exc)
       THEN pc' = "recognise" /\ UNCHANGED pending
       ELSE pc' = "handler_finally" /\ pending' = Some(exc)
    /\ UNCHANGED <<model_loaded, req, file_ext, audio_data, signal, exc, response>>
    /\ UNCHANGED <<loop_vars, norm_vars>>

----------------------------------------------------------------------------
(* Recognition and the handlers' exits *)

\* transcribe_audio, main.py:488-521: returns, or re-raises what the model raised
transcribe_audio ==
    /\ pc = "recognise"
    /\ hist' = [hist EXCEPT !.recognise = @ + 1]
    /\ \E out \in {"ok", "RuntimeError", "ValueError"} :
         exc' = IF out = "ok" THEN None ELSE Raise(out, "Recognition", 0)
    /\ pending' = Some(exc')
    /\ pc' = "handler_finally"
    /\ UNCHANGED <<model_loaded, req, file_ext, audio_data, fs, pre, signal, response>>
    /\ UNCHANGED <<loop_vars, norm_vars>>

\* unlink_guarded with no handler protecting its deletion
unlink_guarded_nowhere(variant) == FALSE

\* whether the handler's finally clause guards os.unlink: main.py:673-678 does,
\* main.py:788-789 and 842-843 do not
unlink_guarded(variant) == variant = "upload"

\* main.py:671-678, 786-789, 840-843
handler_finally ==
    /\ pc = "handler_finally"
    /\ IF ~IsNone(fs.orig)
       THEN \E unlinked \in BOOLEAN :
              /\ fs' = IF unlinked THEN [fs EXCEPT !.orig = None] ELSE fs
              /\ hist' = IF unlinked THEN hist ELSE [hist EXCEPT !.unlink_failed = TRUE]
              /\ exc' = IF unlinked \/ unlink_guarded(req.variant)
                        THEN exc
                        ELSE Raise("OSError", "Cleanup", 0)
       ELSE UNCHANGED <<fs, hist, exc>>
    /\ pc' = "respond"
    /\ UNCHANGED <<model_loaded, req, file_ext, audio_data, pre, signal, pending,
                   response>>
    /\ UNCHANGED <<loop_vars, norm_vars>>

\* the except clauses of a handler: main.py:680-689, 791-796, 845-848
handler_except(variant, e) ==
    IF variant \in {"upload", "base64"} /\ e.cls = "ValueError"
    THEN [status |-> 400, err |-> e.err]
    ELSE [status |-> 500, err |-> e.err]

\* the handler returns its TranscriptionResponse or raises the HTTPException
\* that http_exception_handler, main.py:852-857, turns into the response
respond ==
    /\ pc = "respond"
    /\ response' = IF IsNone(exc)
                   THEN Some([status |-> 200, err |-> "none"])
                   ELSE Some(handler_except(req.variant, Val(exc)))
    /\ exc' = None
    /\ pc' = "done"
    /\ UNCHANGED <<model_loaded, req, file_ext, audio_data, fs, pre, signal,
                   pending, hist>>
    /\ UNCHANGED <<loop_vars, norm_vars>>

----------------------------------------------------------------------------

Next ==
    \/ startup_event
    \/ lifespan_off
    \/ Receive
    \/ get_model
    \/ general_exception_handler
    \/ validate_request
    \/ upload_hint
    \/ base64_decode
    \/ url_fetch
    \/ create_original
    \/ upload_read
    \/ write_original
    \/ preprocess_route
    \/ preprocess_mktemp
    \/ convert_audio_to_wav
    \/ preprocess_convert_failed
    \/ preprocess_read_wav
    \/ preprocess_normalize
    \/ preprocess_finally
    \/ transcribe_audio
    \/ handler_finally
    \/ respond

Spec == Init /\ [][Next]_vars


----------------------------------------------------------------------------
(* Concurrent callers on the event loop.  The server runs every coroutine  *)
(* (the startup hook, each request's dependency and handler) on one event  *)
(* loop: a coroutine keeps the loop until it reaches an await that really  *)
(* suspends it.  uvicorn finishes the startup hook before it accepts a     *)
(* request; the callers below may arrive in any order, that order included.*)

\* what a caller runs
Kinds(c) == IF c = StartupHook THEN {"startup"} ELSE {"upload", "base64", "url"}

\* load_model giving the event loop away between its test and its assignments
load_yields_inside == TRUE

\* load_model, main.py:110-142: from_pretrained, eval and cuda are plain calls,
\* there is no await between the test of model_loaded and the return
load_yields == FALSE

\* the test of model_loaded always succeeding
needs_load_always(loaded) == TRUE

\* main.py:113 and main.py:526: `if not model_loaded`
needs_load(loaded) == ~loaded

\* the positions at which a coroutine is suspended and the loop is free:
\* await audio.read() (main.py:636), session.get and response.read
\* (main.py:810-816).  preprocess_audio (main.py:652, 771, 825), and
\* convert_audio_to_wav inside it (main.py:368), and transcribe_audio
\* (main.py:657, 774, 828) are plain calls inside the coroutine.
yields(at) ==
    \/ at \in {"reading", "fetching"}
    \/ load_yields /\ at = "load_processor"

\* a caller that is not executing: not arrived, waiting to be scheduled,
\* suspended, or finished
Parked(at) == at \in {"idle", "ready", "done", "failed"} \/ yields(at)

\* a failed startup hook ends the process
Exited == task[StartupHook].at = "failed"

\* the event loop can run caller c's next step
CanStep(c) ==
    /\ ~Exited
    /\ \/ running = Some(c)
       \/ running = None /\ Parked(task[c].at)

\* caller c moves to position p, keeping the loop unless p parks it
Goto(c, p) ==
    /\ task' = [task EXCEPT ![c].at = p]
    /\ running' = IF Parked(p) THEN None ELSE Some(c)

\* where a coroutine continues once the model is available: the startup hook
\* returns (main.py:557); the upload handler reads the body (main.py:636); the
\* base64 handler decodes and preprocesses (main.py:709-771); the URL handler
\* downloads (main.py:808-816)
AfterLoad(kind) ==
    CASE kind = "startup" -> "done"
      [] kind = "upload"  -> "reading"
      [] kind = "base64"  -> "preprocess"
      [] kind = "url"     -> "fetching"

\* the startup hook is called, or a request arrives and its task is created
lp_arrive(c) ==
    /\ task[c].at = "idle"
    /\ ~Exited
    /\ \E kind \in Kinds(c) :
         task' = [task EXCEPT ![c] = [at |-> "ready", kind |-> kind]]
    /\ UNCHANGED <<running, loader, model_loaded, request_vars, norm_vars>>

\* get_model, main.py:525-528, and the head of load_model, main.py:110-114
lp_get_model(c) ==
    /\ task[c].at = "ready"
    /\ CanStep(c)
    /\ IF needs_load(model_loaded)
       THEN /\ loader' = [loader EXCEPT !.started = @ + 1]
            /\ Goto(c, "load_processor")
       ELSE /\ Goto(c, AfterLoad(task[c].kind))
            /\ UNCHANGED loader
    /\ UNCHANGED <<model_loaded, request_vars, norm_vars>>

\* load_model, main.py:121-123: the processor; a failure is re-raised
\* (main.py:135-137)
lp_load_processor(c) ==
    /\ task[c].at = "load_processor"
    /\ CanStep(c)
    /\ \E ok \in BOOLEAN :
         IF ok
         THEN /\ loader' = [loader EXCEPT !.processor = @ + 1]
              /\ Goto(c, "load_weights")
         ELSE /\ Goto(c, "failed")
              /\ UNCHANGED loader
    /\ UNCHANGED <<model_loaded, request_vars, norm_vars>>

\* load_model, main.py:124-133: the model, then model_loaded = True
lp_load_weights(c) ==
    /\ task[c].at = "load_weights"
    /\ CanStep(c)
    /\ \E ok \in BOOLEAN :
         IF ok
         THEN /\ loader' = [loader EXCEPT !.model = @ + 1]
              /\ model_loaded' = TRUE
              /\ Goto(c, AfterLoad(task[c].kind))
         ELSE /\ Goto(c, "failed")
              /\ UNCHANGED <<loader, model_loaded>>
    /\ UNCHANGED <<request_vars, norm_vars>>

\* transcribe_audio_file resumes from await audio.read(), main.py:636-638
lp_read(c) ==
    /\ task[c].at = "reading"
    /\ CanStep(c)
    /\ \E ok \in BOOLEAN : Goto(c, IF ok THEN "preprocess" ELSE "failed")
    /\ UNCHANGED <<loader, model_loaded, request_vars, norm_vars>>

\* transcribe_audio_url resumes from the download, main.py:810-821
lp_fetch(c) ==
    /\ task[c].at = "fetching"
    /\ CanStep(c)
    /\ \E ok \in BOOLEAN : Goto(c, IF ok THEN "preprocess" ELSE "failed")
    /\ UNCHANGED <<loader, model_loaded, request_vars, norm_vars>>

\* preprocess_audio up to its routing decision, main.py:292-358: the codec is
\* called, or the file is parsed as it is
lp_preprocess(c) ==
    /\ task[c].at = "preprocess"
    /\ CanStep(c)
    /\ \E p \in {"transcoding", "recognising", "failed"} : Goto(c, p)
    /\ UNCHANGED <<loader, model_loaded, request_vars, norm_vars>>

\* convert_audio_to_wav returns or raises, main.py:368-409, and the rest of
\* preprocess_audio runs
lp_transcode(c) ==
    /\ task[c].at = "transcoding"
    /\ CanStep(c)
    /\ \E ok \in BOOLEAN : Goto(c, IF ok THEN "recognising" ELSE "failed")
    /\ UNCHANGED <<loader, model_loaded, request_vars, norm_vars>>

\* transcribe_audio, cleanup and the response, main.py:657-689
lp_recognise(c) ==
    /\ task[c].at = "recognising"
    /\ CanStep(c)
    /\ \E ok \in BOOLEAN : Goto(c, IF ok THEN "done" ELSE "failed")
    /\ UNCHANGED <<loader, model_loaded, request_vars, norm_vars>>

LoopNext ==
    \/ \E c \in Callers : lp_arrive(c)
    \/ \E c \in Callers : lp_get_model(c)
    \/ \E c \in Callers : lp_load_processor(c)
    \/ \E c \in Callers : lp_load_weights(c)
    \/ \E c \in Callers : lp_read(c)
    \/ \E c \in Callers : lp_fetch(c)
    \/ \E c \in Callers : lp_preprocess(c)
    \/ \E c \in Callers : lp_transcode(c)
    \/ \E c \in Callers : lp_recognise(c)

SpecLoop == Init /\ [][LoopNext]_vars

----------------------------------------------------------------------------
(* Amplitudes: the conversion to float and the peak normalization of       *)
(* preprocess_audio, main.py:436-455.  A float sample is a fraction        *)
(* <<numerator, denominator>>; a division by zero leaves denominator 0.    *)

\* how many samples a signal has at most
MaxSamples == 3

\* 16-bit samples: both ends of the range, the smallest steps, silence
Int16Samples == {-32768, -1, 0, 1, 32767}

RECURSIVE SeqsUpTo(_, _)
SeqsUpTo(S, n) ==
    IF n = 0 THEN {<<>>}
    ELSE LET shorter == SeqsUpTo(S, n - 1)
         IN  shorter \cup {Append(s, x) : s \in {t \in shorter : Len(t) = n - 1}, x \in S}

\* the int16 arrays wavfile.read can return, the empty one included
PeakInputs == SeqsUpTo(Int16Samples, MaxSamples)

\* main.py:437-438: audio.astype(np.float32) / 32768.0
int16_to_float(a) == [i \in DOMAIN a |-> <<a[i], 32768>>]

\* np.abs of one sample
frac_abs(f) == <<IF f[1] < 0 THEN -f[1] ELSE f[1], f[2]>>

\* f <= g for fractions with positive denominators
frac_leq(f, g) == f[1] * g[2] <= g[1] * f[2]

\* f / g
frac_div(f, g) == <<f[1] * g[2], f[2] * g[1]>>

\* np.max(np.abs(audio)) of a non-empty array
abs_max(a) ==
    LET i == CHOOSE i \in DOMAIN a :
                 \A j \in DOMAIN a : frac_leq(frac_abs(a[j]), frac_abs(a[i]))
    IN  frac_abs(a[i])

\* peak_normalize dividing whatever the peak is
peak_normalize_unguarded(a) ==
    LET m == abs_max(a) IN [i \in DOMAIN a |-> frac_div(a[i], m)]

\* main.py:453-455: if np.max(np.abs(audio)) > 0: audio = audio / np.max(np.abs(audio))
peak_normalize(a) ==
    LET m == abs_max(a)
    IN  IF m[1] > 0 THEN [i \in DOMAIN a |-> frac_div(a[i], m)] ELSE a

\* main.py:420: wavfile.read returns the samples
pk_read ==
    /\ norm.at = "idle"
    /\ \E a \in PeakInputs : norm' = [at |-> "read", input |-> a, audio |-> a]
    /\ UNCHANGED <<model_loaded, request_vars, loop_vars>>

\* main.py:436-438
pk_to_float ==
    /\ norm.at = "read"
    /\ norm' = [at |-> "float", input |-> int16_to_float(norm.audio),
                audio |-> int16_to_float(norm.audio)]
    /\ UNCHANGED <<model_loaded, request_vars, loop_vars>>

\* main.py:453-455; np.max of an empty array raises ValueError
pk_normalize ==
    /\ norm.at = "float"
    /\ IF norm.audio = <<>>
       THEN norm' = [norm EXCEPT !.at = "failed"]
       ELSE norm' = [norm EXCEPT !.at = "normalized",
                                 !.audio = peak_normalize(norm.audio)]
    /\ UNCHANGED <<model_loaded, request_vars, loop_vars>>

PeakNext ==
    \/ pk_read
    \/ pk_to_float
    \/ pk_normalize

SpecPeak == Init /\ [][PeakNext]_vars

----------------------------------------------------------------------------
(* Properties *)

Done == pc = "done"

\* the format preprocess_audio reads off the original artifact's name
Resolved == lower(PathSuffix(TempName(file_ext)))

\* the base64 handler has resolved its format hint
Base64Resolved == req.variant = "base64" /\ file_ext # <<>>

\* C1: once a request has returned or raised, no temporary artifact it created
\* still exists -- stated for the runs in which every deletion attempted succeeded
C1_NoArtifactOutlivesRequest ==
    (Done /\ ~hist.unlink_failed) => fs = NoFiles

\* the response the handler gives for what its try block ended with
ResponseFor(p) ==
    IF IsNone(p) THEN [status |-> 200, err |-> "none"]
    ELSE handler_except(req.variant, Val(p))

\* C2: a failure while deleting a temporary artifact never changes the outcome:
\* the response is the one the pipeline's own result or error calls for
C2_CleanupNeverChangesOutcome ==
    (Done /\ ~IsNone(pending)) => Val(response) = ResponseFor(Val(pending))

\* C3: a base64 payload that fails decoding ends in HTTP 400, InvalidEncodingError
C3_BadBase64Is400 ==
    (Done /\ req.variant = "base64" /\ model_loaded
          /\ Truthy(get_audio_data(req))
          /\ ~b64decode(Val(get_audio_data(req))).ok)
    => Val(response) = [status |-> 400, err |-> "InvalidEncoding"]

\* C4: transcoding is invoked if and only if the resolved format is not wav, or
\* it is wav but the first four bytes are not RIFF/RIFX
C4_RoutingRule ==
    (pc \in {"mktemp", "read_wav"} /\ hist.wavread = 0) =>
        LET f == Val(fs.orig)
            transcoding == pc = "mktemp" \/ hist.convert > 0
        IN  transcoding <=> (lower(PathSuffix(f.name)) # x_wav \/ ~IsWavHeader(f.head))

\* a dot followed by one or more characters none of which is a dot or a slash
IsExtension(x) ==
    /\ Len(x) >= 2 /\ x[1] = "."
    /\ \A i \in 2..Len(x) : x[i] \notin {".", "/"}

\* the format each hint source names, None when it names none
NamedByExtension(r) ==
    IF Truthy(r.file_extension)
    THEN LET l == lower(Val(r.file_extension))
             x == IF startswith_dot(l) THEN l ELSE <<".">> \o l
         IN  IF IsExtension(x) THEN Some(x) ELSE None
    ELSE None

NamedByFilename(r) ==
    IF Truthy(r.filename) /\ lower(PathSuffix(Val(r.filename))) \in format_map_keys
    THEN Some(lower(PathSuffix(Val(r.filename))))
    ELSE None

NamedByContentType(r) ==
    IF TruthyCt(r.content_type) THEN content_type_map_get(Val(r.content_type)) ELSE None

NamedBySignature(data) ==
    IF Len(data) < 4 THEN None
    ELSE IF Take(data, 4) \in {RIFF, RIFX} THEN Some(x_wav)
    ELSE IF Take(data, 3) = ID3v \/ Take(data, 2) = MpegSync THEN Some(x_mp3)
    ELSE IF Take(data, 4) = fLaC THEN Some(x_flac)
    ELSE IF Take(data, 4) = OggS THEN Some(x_ogg)
    ELSE None

\* first source in priority order that names a format, else the default
FirstNamed(r, data) ==
    LET named == <<NamedByExtension(r), NamedByFilename(r), NamedByContentType(r),
                   NamedBySignature(data), Some(x_m4a)>>
        i == CHOOSE k \in 1..5 : ~IsNone(named[k]) /\ \A j \in 1..(k-1) : IsNone(named[j])
    IN  Val(named[i])

\* every hint source that is present names a format
PresentHintsNameFormats(r) ==
    /\ Truthy(r.file_extension) => ~IsNone(NamedByExtension(r))
    /\ Truthy(r.filename) => ~IsNone(NamedByFilename(r))
    /\ TruthyCt(r.content_type) => ~IsNone(NamedByContentType(r))

\* C5: in the base64 variant, when the hint sources present each name a format,
\* the resolved format is the one named by the highest-priority source (extension
\* field, filename suffix, content type, byte signature, default m4a); and a
\* payload with an extension hint other than wav is never read as WAV without
\* transcoding, whatever its signature
C5_HintPriority ==
    (Base64Resolved /\ PresentHintsNameFormats(req)) =>
        /\ Resolved = FirstNamed(req, audio_data)
        /\ (~IsNone(NamedByExtension(req)) /\ Val(NamedByExtension(req)) # x_wav
              /\ pc \in {"read_wav", "normalize"}) => hist.convert = 1

C5_Witness ==
    /\ Base64Resolved
    /\ Truthy(req.file_extension) /\ Truthy(req.filename) /\ TruthyCt(req.content_type)
    /\ PresentHintsNameFormats(req)
    /\ Val(NamedByExtension(req)) = x_mp3
    /\ Val(NamedByFilename(req)) = x_wav
    /\ IsWavHeader(audio_data)
    /\ pc = "read_wav" /\ hist.convert = 1

\* C6: in the base64 variant a hint source that is present but names no
\* recognised format is skipped, and resolution continues with the next source
C6_UnrecognisedHintSkipped ==
    (Base64Resolved /\ ~Truthy(req.file_extension)) =>
        Resolved = FirstNamed(req, audio_data)

\* the case of C7: a base64 request without filename, content type or extension
\* field whose decoded bytes start with RIFF or RIFX
C7_Case ==
    /\ Base64Resolved
    /\ ~Truthy(req.filename) /\ ~TruthyCt(req.content_type) /\ ~Truthy(req.file_extension)
    /\ IsWavHeader(audio_data)

\* C7: such a request resolves to wav, never invokes transcoding, never creates
\* a converted artifact, and goes from routing straight to the WAV reader
C7_RiffPayloadSkipsTranscoding ==
    C7_Case =>
        /\ Resolved = x_wav
        /\ hist.convert = 0
        /\ IsNone(fs.conv)
        /\ ~pre.should_convert /\ ~pre.converted_file_path
        /\ pc \notin {"mktemp", "convert", "convert_failed"}

C7_Witness ==
    C7_Case /\ pc = "normalize" /\ hist.wavread = 1 /\ hist.convert = 0

\* C8: a normalized signal of n samples fails as too short exactly when
\* n < 8000, as too long exactly when n > 480000, and passes otherwise with its
\* n samples as they are; a rejected signal yields no signal at all
C8_DurationBounds ==
    (pc = "preprocess_finally" /\ pre.normalized) =>
        LET n == pre.samples IN
        /\ (n < 8000) <=> (exc = Raise("ValueError", "TooShort", 0))
        /\ (n > 480000) <=> (exc = Raise("ValueError", "TooLong", 0))
        /\ (n >= 8000 /\ n <= 480000) <=> (IsNone(exc) /\ signal # None /\ Val(signal).n = n)
        /\ ~IsNone(exc) => IsNone(signal)

C8_Witness ==
    /\ pc = "preprocess_finally" /\ pre.normalized
    /\ pre.samples = 8000 /\ IsNone(exc) /\ signal # None /\ Val(signal).n = 8000

\* C9: a WAV parse failure and a recognition failure are reported as 5xx
C9_ServiceFaultsAre5xx ==
    (Done /\ Val(response).err \in {"MalformedPcm", "Recognition"}) =>
        Val(response).status \in 500..599

\* C10: FetchError, DecodeError, EncodeError, TooShortError and TooLongError are
\* reported as 4xx in every ingestion variant
C10_CallerFaultsAre4xx ==
    (Done /\ Val(response).err \in {"Fetch", "Decode", "Encode", "TooShort", "TooLong"}) =>
        Val(response).status \in 400..499

----------------------------------------------------------------------------

\* a base64 request whose `audio` and `audio_base64` are both absent or empty
C11_Case ==
    /\ req.variant = "base64"
    /\ ~Truthy(req.audio)
    /\ ~Truthy(req.audio_base64)

\* C11: a base64 request with neither `audio` nor `audio_base64` is refused
\* with MissingAudio as a client error, and nothing has happened by then: no
\* artifact was created, nothing was decoded, no format was resolved and no
\* pipeline stage ran. (The model dependency is solved before the body is
\* looked at, so a failed lazy load is the one other way such a request ends.)
C11_MissingAudioBeforeAnyWork ==
    C11_Case =>
        /\ fs = NoFiles
        /\ file_ext = <<>>
        /\ audio_data = <<>>
        /\ pre = NoPre
        /\ signal = None
        /\ hist = NoHist
        /\ pc \in {"get_model", "unhandled", "validate", "done"}
        /\ Done => \/ response = Some([status |-> 422, err |-> "MissingAudio"])
                   \/ /\ ~model_loaded
                      /\ response = Some([status |-> 500, err |-> "ModelLoad"])

C11_Witness ==
    /\ C11_Case
    /\ Done
    /\ req.audio = Some(<<>>)
    /\ req.file_extension = Some(x_mp3)
    /\ response = Some([status |-> 422, err |-> "MissingAudio"])

----------------------------------------------------------------------------

\* an upload whose filename carries an extension the codec is told no format
\* for, and whose bytes the codec could not read
C12_Case ==
    /\ req.variant = "upload"
    /\ Truthy(req.filename)
    /\ PathSuffix(Val(req.filename)) # <<>>
    /\ lower(PathSuffix(Val(req.filename))) \notin format_map_keys
    /\ hist.codec = "load_failed"

\* C12: an upload with an unrecognised filename extension whose bytes the codec
\* cannot read ends as a client error reporting the decode failure; neither the
\* WAV parser nor recognition ran; and when the call has returned, the original
\* and the converted artifact are both gone, as far as the file system carried
\* out the deletions the code asked for.
C12_UnreadableUploadIs400AndCleaned ==
    C12_Case =>
        /\ hist.convert = 1
        /\ hist.wavread = 0
        /\ hist.recognise = 0
        /\ pc \in {"convert_failed", "preprocess_finally", "handler_finally",
                   "respond", "done"}
        /\ Done => /\ response = Some([status |-> 400, err |-> "Decode"])
                   /\ ~hist.unlink_failed => fs = NoFiles

C12_Witness ==
    /\ C12_Case
    /\ Done
    /\ req.filename = Some(n_c_txt)
    /\ response = Some([status |-> 400, err |-> "Decode"])
    /\ fs = NoFiles

----------------------------------------------------------------------------

\* the callers inside the body of load_model
Loading == {c \in Callers : task[c].at \in {"load_processor", "load_weights"}}

\* C13: however the startup hook and the requests' dependencies interleave, at
\* most one caller is inside load_model's body at a time, no caller is inside
\* it once the model is loaded, and the load succeeds at most once.
C13_SingleLoad ==
    /\ Cardinality(Loading) <= 1
    /\ Loading # {} => ~model_loaded
    /\ loader.model <= 1
    /\ model_loaded <=> loader.model = 1

\* one caller is loading while every other caller has arrived and waits
C13_Witness ==
    \E c \in Callers :
        /\ Loading = {c}
        /\ \A d \in Callers \ {c} : task[d].at = "ready"

\* C14: while one request is inside the transcoding stage or the URL download,
\* every other request that has arrived and not finished can take its next step.
C14_BlockingStagesYield ==
    \A a, b \in Callers \ {StartupHook} :
        ( /\ a # b
          /\ task[a].at \in {"transcoding", "fetching"}
          /\ task[b].at \notin {"idle", "done", "failed"} )
        => CanStep(b)

\* C15: once model_loaded is true it stays true, and no step of any caller
\* assigns model or processor or enters load_model's body again; a step
\* changes the position of one caller only.
C15_ModelIsWriteOnce ==
    [][ /\ model_loaded => (model_loaded' /\ loader' = loader)
        /\ Cardinality({c \in Callers : task'[c] # task[c]}) <= 1 ]_vars

\* the model was loaded once, after which one request succeeded and one failed
C15_Witness ==
    /\ model_loaded
    /\ loader.started = 1
    /\ task[StartupHook].at = "done"
    /\ task[1].at = "done"
    /\ task[2].at = "failed"

----------------------------------------------------------------------------

\* the hint the upload variant is to derive from a request's filename and
\* content type
C16_Hint(r) ==
    IF r.filename # None /\ PathSuffix(Val(r.filename)) # <<>>
    THEN lower(PathSuffix(Val(r.filename)))
    ELSE IF r.content_type # None /\ content_type_map_get(Val(r.content_type)) # None
         THEN Val(content_type_map_get(Val(r.content_type)))
         ELSE x_m4a

\* C16: the upload variant names its original artifact by the lower-cased
\* filename suffix when the filename has one, otherwise by the content-type
\* table when the content type is in it, otherwise by .m4a; and it has a hint
\* whenever the artifact exists.
C16_UploadHint ==
    req.variant = "upload" =>
        /\ file_ext # <<>> => file_ext = C16_Hint(req)
        /\ fs.orig # None => file_ext # <<>>

\* a suffix-less filename fell through to the content type
C16_Witness ==
    /\ req.variant = "upload"
    /\ req.filename = Some(n_rec)
    /\ req.content_type = Some("audio/mpeg")
    /\ file_ext = x_mp3
    /\ fs.orig # None

----------------------------------------------------------------------------

\* a base64 request that carries its payload in the legacy field only
C17_Case ==
    /\ req.variant = "base64"
    /\ ~Truthy(req.audio)
    /\ Truthy(req.audio_base64)

\* the same request with the payload moved to `audio`
C17_Twin(r) == [r EXCEPT !.audio = r.audio_base64, !.audio_base64 = None]

\* C17: a request carrying its payload only in `audio_base64` is handled as
\* the same request carrying it only in `audio` is: it passes validation as
\* that one does, the handler takes the same text, and what the handler
\* derives from it (decoded bytes, resolved hint, the original artifact's
\* name and content, the routing decision) is what the `audio` field of the
\* twin gives; it is never refused as missing.
C17_LegacyFieldIsSynonym ==
    C17_Case =>
        LET t == C17_Twin(req)
            d == b64decode(Val(t.audio))
            x == base64_file_ext(t.file_extension, t.filename, t.content_type, d.bytes)
        IN  /\ validate_audio_field(req) = validate_audio_field(t)
            /\ get_audio_data(req) = t.audio
            /\ get_audio_data(req) = get_audio_data(t)
            /\ file_ext # <<>> => (d.ok /\ audio_data = d.bytes /\ file_ext = x)
            /\ fs.orig # None =>
                   /\ Val(fs.orig).name = TempName(x)
                   /\ Val(fs.orig).head \in {<<>>, d.bytes}
            /\ pc \in {"mktemp", "convert", "read_wav"} =>
                   pre.should_convert =
                       should_convert(lower(PathSuffix(TempName(x))), IsWavHeader(d.bytes))
            /\ Done => Val(response).err \notin {"MissingAudio", "InvalidEncoding"}

\* the repository's own test: a RIFF payload in `audio_base64`, answered 200
C17_Witness ==
    /\ C17_Case
    /\ Done
    /\ req.audio = None
    /\ req.audio_base64 = Some(b64_RIFF)
    /\ req.file_extension = None /\ req.filename = None /\ req.content_type = None
    /\ Val(response).status = 200

----------------------------------------------------------------------------

RECURSIVE C18_Gcd(_, _)
C18_Gcd(x, y) == IF y = 0 THEN x ELSE C18_Gcd(y, x % y)

\* m = floor(n * a / b)
C18_IsFloorOf(m, n, a, b) == m * b <= n * a /\ n * a < (m + 1) * b

\* the normalizer has produced its signal from the array wavfile.read returned
C18_Case == pc = "preprocess_finally" /\ pre.normalized

\* C18: from n source samples at rate sr the normalizer makes n samples when
\* sr is 16000 and floor(n * 16000 / sr) samples otherwise; the signal it
\* returns has that many samples on a single axis, and its duration is that
\* count over 16000.
C18_ResampledLength ==
    C18_Case =>
        LET n == pre.frames
            g == C18_Gcd(pre.sr, 16000)
        IN  /\ pre.sr = 16000 => pre.samples = n
            /\ pre.sr # 16000 =>
                   C18_IsFloorOf(pre.samples, n, 16000 \div g, pre.sr \div g)
            /\ signal # None =>
                   /\ Val(signal).n = pre.samples
                   /\ Val(signal).shape = <<pre.samples>>
                   /\ Val(signal).duration = <<pre.samples, 16000>>

\* 22051 stereo frames at 44100 Hz became 8000 samples on one axis
C18_Witness ==
    /\ C18_Case
    /\ pre.sr = 44100 /\ pre.frames = 22051 /\ pre.channels = 2
    /\ signal = Some([n |-> 8000, shape |-> <<8000>>, duration |-> <<8000, 16000>>])

----------------------------------------------------------------------------

\* a sample within [-1, 1]
C19_InUnit(f) == f[2] > 0 /\ -f[2] <= f[1] /\ f[1] <= f[2]

\* a sample of absolute value exactly 1
C19_IsOne(f) == f[2] > 0 /\ (f[1] = f[2] \/ f[1] = -f[2])

----------------------------------------------------------------------------

\* the transcoding stage has reported success: preprocess_audio goes on with
\* the converted artifact
C20_Success == pre.audio_file_path = "conv"

\* the codec returned an error from its export, or left no file, or left a
\* file that does not start with a WAV signature
C20_Failure == hist.codec \in {"export_failed", "no_output", "bad_header"}

\* C20: when the transcoding stage reports success the converted artifact
\* exists and starts with RIFF or RIFX; when the export fails, the output is
\* missing or its header is anything else, the stage fails with the encode
\* error (a client error for an upload) and the WAV parser is never run; the
\* parser runs after a transcoding only if that one succeeded.
C20_VerifiedTranscoding ==
    /\ C20_Success =>
           /\ fs.conv # None
           /\ Take(Val(fs.conv).head, 4) \in {RIFF, RIFX}
    /\ C20_Failure =>
           /\ ~C20_Success
           /\ hist.wavread = 0
           /\ hist.recognise = 0
           /\ pc \in {"convert_failed", "preprocess_finally"} =>
                  exc = Raise("ValueError", "Encode", 0)
           /\ (Done /\ req.variant = "upload") =>
                  response = Some([status |-> 400, err |-> "Encode"])
    /\ (hist.convert > 0 /\ hist.wavread > 0) => hist.codec \in {"ok", "ok_rifx"}

\* the codec wrote a RIFX file and the WAV parser is about to read it
C20_Witness ==
    /\ pc = "read_wav"
    /\ C20_Success
    /\ hist.codec = "ok_rifx"
    /\ Val(fs.conv).head = RIFX

----------------------------------------------------------------------------

\* C21: recognition is invoked at most once in a request, and at the step
\* that invokes it the file has been routed and parsed (through a transcoding
\* that succeeded, if there was one), the signal has been normalized and its
\* duration lies within the limits, no failure is in flight or recorded and
\* no response exists; a 200 response is produced only after recognition has
\* been invoked and has returned without an exception.
C21_RecognitionLast ==
    [][ /\ hist'.recognise <= 1
        /\ hist'.recognise # hist.recognise =>
               /\ pc = "recognise"
               /\ hist.recognise = 0
               /\ hist.wavread = 1
               /\ hist.convert <= 1
               /\ hist.convert = 1 => hist.codec \in {"ok", "ok_rifx"}
               /\ signal # None
               /\ 8000 <= Val(signal).n /\ Val(signal).n <= 480000
               /\ exc = None
               /\ pending = None
               /\ response = None
        /\ (response = None /\ response' # None /\ Val(response').status = 200) =>
               /\ hist.recognise = 1
               /\ pending = Some(None) ]_vars

\* a transcoded request was recognised and answered 200
C21_Witness ==
    /\ Done
    /\ Val(response).status = 200
    /\ hist.recognise = 1
    /\ hist.convert = 1
    /\ hist.wavread = 1

----------------------------------------------------------------------------
(* Progress.  A request's steps are the handler's own statements and the    *)
(* returns of the calls it waits for (body read, download, codec, WAV       *)
(* parser, model); given that each such call returns or raises, a step that *)
(* is possible is eventually taken.  Progress is followed for a selection   *)
(* of requests that takes every path of the three handlers.                 *)

\* "A": one data character, which b64decode refuses (binascii.Error)
b64_odd == <<"A">>

\* uploads with and without a filename, of a WAV and of an MP3 body; base64
\* requests with the payload in either field, in neither, and undecodable,
\* with and without an explicit extension; every URL request
FairRequests ==
    {r \in UploadRequests :
        /\ r.filename \in {None, Some(n_a_wav), Some(n_c_txt)}
        /\ r.content_type = None
        /\ r.content \in {RIFF, <<73, 68, 51, 4>>}}
    \cup {[NoReq EXCEPT !.variant = "base64", !.audio = a, !.audio_base64 = o,
                        !.file_extension = x] :
            a \in {None, Some(<<>>), Some(b64_short), Some(b64_odd)},
            o \in {None, Some(b64_short)},
            x \in {None, Some(<<"W","A","V">>), Some(x_mp3)}}
    \cup UrlRequests

\* Receive, for the selected requests
ReceiveSelected ==
    /\ pc = "idle"
    /\ \E r \in FairRequests : req' = r
    /\ pc' = "get_model"
    /\ UNCHANGED <<model_loaded, file_ext, audio_data, fs, pre, signal, exc,
                   pending, response, hist>>
    /\ UNCHANGED <<loop_vars, norm_vars>>

NextSelected ==
    \/ startup_event
    \/ lifespan_off
    \/ ReceiveSelected
    \/ get_model
    \/ general_exception_handler
    \/ validate_request
    \/ upload_hint
    \/ base64_decode
    \/ url_fetch
    \/ create_original
    \/ upload_read
    \/ write_original
    \/ preprocess_route
    \/ preprocess_mktemp
    \/ convert_audio_to_wav
    \/ preprocess_convert_failed
    \/ preprocess_read_wav
    \/ preprocess_normalize
    \/ preprocess_finally
    \/ transcribe_audio
    \/ handler_finally
    \/ respond

\* every step of an accepted request is eventually taken when it stays possible;
\* nothing is required of the process start or of the arrival of a request
RequestFairness ==
    /\ WF_vars(get_model)
    /\ WF_vars(general_exception_handler)
    /\ WF_vars(validate_request)
    /\ WF_vars(upload_hint)
    /\ WF_vars(base64_decode)
    /\ WF_vars(url_fetch)
    /\ WF_vars(create_original)
    /\ WF_vars(upload_read)
    /\ WF_vars(write_original)
    /\ WF_vars(preprocess_route)
    /\ WF_vars(preprocess_mktemp)
    /\ WF_vars(convert_audio_to_wav)
    /\ WF_vars(preprocess_convert_failed)
    /\ WF_vars(preprocess_read_wav)
    /\ WF_vars(preprocess_normalize)
    /\ WF_vars(preprocess_finally)
    /\ WF_vars(transcribe_audio)
    /\ WF_vars(handler_finally)
    /\ WF_vars(respond)

SpecFair == Init /\ [][NextSelected]_vars /\ RequestFairness

\* the request has been accepted and has no response yet
Accepted == pc \notin {"boot", "idle", "exited", "done"}

\* C22: every accepted request eventually has its response, a success or an
\* error; a response once given is not replaced; and no stage runs a second
\* time: the codec, the WAV parser and recognition are each called at most once.
C22_EveryRequestEnds ==
    /\ Accepted ~> (Done /\ response # None)
    /\ [][response # None => response' = response]_vars
    /\ [](hist.convert <= 1 /\ hist.wavread <= 1 /\ hist.recognise <= 1)
    /\ [](response # None <=> Done)

\* a URL request went through every stage and ended with the model's error
C22_Witness ==
    /\ Done
    /\ req.variant = "url"
    /\ hist.recognise = 1
    /\ response = Some([status |-> 500, err |-> "Recognition"])

----------------------------------------------------------------------------

\* the request's own call of load_model failed
C23_LoadFailed ==
    /\ pc \notin {"boot", "exited", "idle"}
    /\ loader.started > loader.model

\* C23: when recognition is invoked model_loaded is true and processor and
\* model have both been assigned; model_loaded is true only after both; and a
\* request whose load failed, part-way or at once, leaves model_loaded false
\* and ends with an error, no artifact created and no stage run.
C23_ModelReadyAtRecognition ==
    /\ (pc = "recognise" \/ hist.recognise > 0) =>
           (model_loaded /\ loader.processor >= 1 /\ loader.model >= 1)
    /\ model_loaded <=> loader.model >= 1
    /\ model_loaded => loader.processor >= 1
    /\ C23_LoadFailed =>
           /\ ~model_loaded
           /\ fs = NoFiles
           /\ file_ext = <<>>
           /\ hist = NoHist
           /\ pc \in {"unhandled", "done"}
           /\ Done => response = Some([status |-> 500, err |-> "ModelLoad"])

\* the processor was loaded, the model was not, and the request was answered 500
C23_Witness ==
    /\ Done
    /\ loader = [processor |-> 1, model |-> 0, started |-> 1]
    /\ ~model_loaded
    /\ response = Some([status |-> 500, err |-> "ModelLoad"])

----------------------------------------------------------------------------

\* the artifacts of the request that exist
C24_Artifacts == {k \in {"orig", "conv"} : fs[k] # None}

\* the positions from the start of preprocess_audio to the handler's finally
C24_Processing ==
    pc \in {"preprocess", "mktemp", "convert", "convert_failed", "read_wav",
            "normalize", "preprocess_finally", "recognise", "handler_finally"}

\* C24: a request has at most two artifacts, the original and at most one
\* converted WAV, which is created at most once; when recognition is invoked
\* the converted WAV is gone (as far as the file system carried out the
\* deletion asked of it) and the original exists; the original exists from
\* the start of preprocessing until the handler's cleanup, which follows the
\* return or the exception of recognition.
C24_ArtifactLifetimes ==
    /\ Cardinality(C24_Artifacts) <= 2
    /\ hist.convert <= 1
    /\ fs.conv # None => hist.recognise = 0
                         \/ hist.unlink_failed
    /\ pc = "recognise" =>
           /\ fs.orig # None
           /\ ~hist.unlink_failed => fs.conv = None
    /\ C24_Processing => fs.orig # None
    /\ (fs.orig = None /\ hist.recognise = 1) => pc \in {"respond", "done"}

\* recognition is about to run on a transcoded request: one artifact is left
C24_Witness ==
    /\ pc = "recognise"
    /\ hist.convert = 1
    /\ fs.conv = None
    /\ fs.orig # None

-----------------------------------------------------------------------------
(* C25 *)

\* the extension preprocess_audio reads off the original artifact, main.py:308
C25_Extension == lower(PathSuffix(Val(fs.orig).name))

\* C25: the original artifact of every variant has a non-empty extension, so
\* the routing of preprocess_audio is decided by the extension alone: whenever
\* an original exists its extension is not empty, and at the routing step the
\* decision is "extension differs from .wav", whatever the header says.
C25_ExtensionAlwaysPresent ==
    /\ fs.orig # None => C25_Extension # <<>>
    /\ pc = "preprocess" =>
           \A isw \in BOOLEAN :
               should_convert(C25_Extension, isw) <=> (C25_Extension # x_wav)

-----------------------------------------------------------------------------
(* C26 *)

\* the field the claim says is decoded: `audio` unless it is absent or empty
C26_Preferred == IF Truthy(req.audio) THEN req.audio ELSE req.audio_base64

\* a base64 request carrying a non-empty value in both fields
C26_Both == req.variant = "base64" /\ Truthy(req.audio) /\ Truthy(req.audio_base64)

\* C26: the payload a base64 request decodes and processes is the content of
\* `audio` whenever that field is non-empty, and of `audio_base64` only when
\* `audio` is absent or empty: the decoding step yields the bytes of the
\* preferred field, or ends the request when that field is undecodable without
\* decoding the other one; no later step of the request changes the request or
\* the decoded bytes, and what is written to the original artifact starts with
\* those bytes.
C26_AudioFieldWins ==
    [][/\ (pc = "base64_decode" /\ Truthy(C26_Preferred)) =>
              LET d == b64decode(Val(C26_Preferred)) IN
              IF d.ok
              THEN audio_data' = d.bytes /\ pc' = "create"
              ELSE audio_data' = <<>> /\ pc' = "respond" /\ exc' # None
       /\ (req.variant = "base64" /\ pc # "base64_decode") =>
              audio_data' = audio_data /\ req' = req
       /\ (req.variant = "base64" /\ fs'.orig # None
             /\ Val(fs'.orig).head # <<>>) =>
              Val(fs'.orig).head = Take(audio_data', 4)]_vars

\* both fields are set, they decode to different bytes, and the artifact handed
\* to preprocess_audio holds the bytes of `audio`
C26_Witness ==
    /\ C26_Both
    /\ b64decode(Val(req.audio)).bytes # b64decode(Val(req.audio_base64)).bytes
    /\ pc = "preprocess"
    /\ audio_data = b64decode(Val(req.audio)).bytes
    /\ Val(fs.orig).head = Take(audio_data, 4)

====
